---- MODULE Spec2Model ----
(***************************************************************************)
(* Model of inputProcessing.cpp: the query automaton                       *)
(* (IOManager::getResistantInput and its callers) and the lineup parser    *)
(* (makeInstanceFromString, makeArmyFromStrings, parseHeroString).         *)
(*                                                                         *)
(* A std::string is a sequence of one-character strings.  C++ positions    *)
(* are 0-based; position p of a string s is s[p + 1] here.                 *)
(***************************************************************************)
EXTENDS Integers, Sequences, FiniteSets, TLC

\* ------------------------------------------------------------------ bounds
\* Longest instance string handed to makeInstanceFromString in SpecParse.
MaxLen == 5
\* Largest number of lines of the macro file.
MaxScript == 2

\* ------------------------------------------------- constants of the headers
\* Capacity of an Army.
ARMY_MAX_SIZE == 6
POSITIVE_ANSWER == <<"y">>
NEGATIVE_ANSWER == <<"n">>
TOKEN_SEPARATOR == <<" ">>
ELEMENT_SEPARATOR == <<",">>
COMMENT_DELIMITOR == <<"/", "/">>
QUEST_PREFIX == <<"q">>
QUEST_NUMBER_SEPARTOR == <<"-">>
HEROLEVEL_SEPARATOR == <<":">>
HELP == <<"h", "e", "l", "p">>

\* string::npos converted to int (line 204), and the value of npos + 1.
NPOS == -1
\* A count larger than every string: what npos - start is as a size_t.
HugeCount == 1000000
\* INT_MAX / 10 and INT_MAX % 10, for the range check of stoi.
IntMaxDiv10 == 214748364
IntMaxMod10 == 7

\* The static databases.
monsterMap == {<<"a">>, <<"b">>}
baseHeroes == << <<"h">>, <<"g">> >>
quests == << << <<"a">> >>, << <<"a">>, <<"b">> >> >>

\* ---------------------------------------------------------- std::string
Min(a, b) == IF a < b THEN a ELSE b

\* s.substr(pos, count), for pos <= s.length().
Substr(s, pos, count) == SubSeq(s, pos + 1, Min(pos + count, Len(s)))

\* Whether sep occurs in s at 0-based position p.
OccursAt(s, sep, p) ==
    /\ p + Len(sep) <= Len(s)
    /\ \A k \in 1..Len(sep) : s[p + k] = sep[k]

\* s.find(sep, start): the first position >= start where sep occurs, or NPOS.
RECURSIVE Find(_, _, _)
Find(s, sep, start) ==
    IF start + Len(sep) > Len(s) THEN NPOS
    ELSE IF OccursAt(s, sep, start) THEN start
    ELSE Find(s, sep, start + 1)

\* s.compare(0, n, prefix) == 0
StartsWith(s, prefix) == Substr(s, 0, Len(prefix)) = prefix

UpperCase == <<"A", "B", "C", "D", "E", "F", "G", "H", "I", "J", "K", "L", "M",
               "N", "O", "P", "Q", "R", "S", "T", "U", "V", "W", "X", "Y", "Z">>
LowerCase == <<"a", "b", "c", "d", "e", "f", "g", "h", "i", "j", "k", "l", "m",
               "n", "o", "p", "q", "r", "s", "t", "u", "v", "w", "x", "y", "z">>

\* The lowercase letter of each uppercase letter.
LowerOf == [c \in {UpperCase[i] : i \in 1..26} |->
               LowerCase[CHOOSE i \in 1..26 : UpperCase[i] = c]]

\* tolower(c, locale())
ToLowerChar(c) == IF c \in DOMAIN LowerOf THEN LowerOf[c] ELSE c

\* toLower(input)
toLower(input) == [i \in 1..Len(input) |-> ToLowerChar(input[i])]

\* The loop of split: start is the loop variable, output the vector so far.
RECURSIVE SplitFrom(_, _, _, _)
SplitFrom(target, separator, start, output) ==
    LET occurrence == Find(target, separator, start)
        count == IF occurrence = NPOS THEN HugeCount ELSE occurrence - start
        substring == Substr(target, start, count)
        out == IF start = 0 \/ Len(substring) > 0
               THEN Append(output, substring) ELSE output
    IN  IF occurrence = NPOS THEN out
        ELSE SplitFrom(target, separator, occurrence + Len(separator), out)

\* split(target, separator)
split(target, separator) == SplitFrom(target, separator, 0, <<>>)

\* --------------------------------------------------------------- std::stoi
Digits == <<"0", "1", "2", "3", "4", "5", "6", "7", "8", "9">>
IsDigit(c) == \E d \in 1..10 : Digits[d] = c
DigitVal(c) == (CHOOSE d \in 1..10 : Digits[d] = c) - 1
IsSpace(c) == c \in {" ", "\t"}

\* Number of leading characters of s, from 1-based index i, that satisfy isspace.
RECURSIVE SkipSpace(_, _)
SkipSpace(s, i) == IF i <= Len(s) /\ IsSpace(s[i]) THEN SkipSpace(s, i + 1) ELSE i

\* Accumulates the digits from index i; out_of_range ("throw") when the value
\* leaves int.
RECURSIVE Accumulate(_, _, _, _)
Accumulate(s, i, acc, neg) ==
    IF i > Len(s) \/ ~IsDigit(s[i]) THEN [kind |-> "ok", val |-> IF neg THEN -acc ELSE acc]
    ELSE LET d == DigitVal(s[i])
             lastOk == IF neg THEN IntMaxMod10 + 1 ELSE IntMaxMod10
         IN  IF acc > IntMaxDiv10 \/ (acc = IntMaxDiv10 /\ d > lastOk)
             THEN [kind |-> "throw", val |-> 0]
             ELSE Accumulate(s, i + 1, acc * 10 + d, neg)

\* stoi(s) with the position argument left out: leading white space, an
\* optional sign, then the longest run of digits; what follows is ignored.
\* No digit is invalid_argument, a value outside int is out_of_range.
stoi(s) ==
    LET i == SkipSpace(s, 1)
        signed == i <= Len(s) /\ s[i] \in {"+", "-"}
        neg == i <= Len(s) /\ s[i] = "-"
        j == IF signed THEN i + 1 ELSE i
    IN  IF j > Len(s) \/ ~IsDigit(s[j]) THEN [kind |-> "throw", val |-> 0]
        ELSE Accumulate(s, j, 0, neg)

\* ------------------------------------------------------------ the parser
\* A Monster of the monster database, and a leveled hero made by
\* addLeveledHero from a base hero and a level.
PlainMonster(name) == [name |-> name, baseName |-> name, level |-> 0, hero |-> FALSE]
LeveledHero(base, level) == [name |-> base, baseName |-> base, level |-> level, hero |-> TRUE]

\* What Army::add does with a full Army: "throw" or "drop".
VARIABLE addWhenFull

\* Army::Army() and Army::add.  An Army never holds more than ARMY_MAX_SIZE
\* units: add on a full Army throws or leaves the Army as it is, as
\* addWhenFull says.
EmptyArmy == [monsters |-> <<>>, monsterAmount |-> 0]
AddThrows(army) == addWhenFull = "throw" /\ army.monsterAmount >= ARMY_MAX_SIZE
ArmyAdd(army, m) ==
    IF army.monsterAmount >= ARMY_MAX_SIZE THEN army
    ELSE [monsters |-> Append(army.monsters, m),
          monsterAmount |-> army.monsterAmount + 1]

\* A lookup that never fails (operator[] instead of at).
MonsterKnownAlways(name) == TRUE

\* Whether monsterMap.at(name) finds the name; it throws out_of_range otherwise.
MonsterKnown(name) == name \in monsterMap

\* parseHeroString(heroString): the level is parsed first, then the base
\* name is searched in baseHeroes.
parseHeroString(heroString) ==
    LET pos == Find(heroString, HEROLEVEL_SEPARATOR, 0)
        name == Substr(heroString, 0, IF pos = NPOS THEN HugeCount ELSE pos)
        level == stoi(Substr(heroString, pos + 1, HugeCount))
    IN  IF level.kind = "throw" THEN [kind |-> "throw", base |-> <<>>, level |-> 0]
        ELSE IF \E i \in 1..Len(baseHeroes) : baseHeroes[i] = name
        THEN [kind |-> "ok", base |-> name, level |-> level.val]
        ELSE [kind |-> "throw", base |-> <<>>, level |-> 0]

\* The loop of makeArmyFromStrings from index i (1-based): army is the Army
\* built so far, created the leveled heroes handed to addLeveledHero so far.
RECURSIVE ArmyFrom(_, _, _, _)
ArmyFrom(stringMonsters, i, army, created) ==
    IF i > Len(stringMonsters) THEN [kind |-> "ok", army |-> army, heroes |-> created]
    ELSE IF Find(stringMonsters[i], HEROLEVEL_SEPARATOR, 0) # NPOS
    THEN LET heroData == parseHeroString(stringMonsters[i])
         IN  IF heroData.kind = "throw"
             THEN [kind |-> "throw", army |-> army, heroes |-> created]
             ELSE LET h == LeveledHero(heroData.base, heroData.level)
                  IN  IF AddThrows(army)
                      THEN [kind |-> "throw", army |-> army,
                            heroes |-> Append(created, h)]
                      ELSE ArmyFrom(stringMonsters, i + 1, ArmyAdd(army, h),
                                    Append(created, h))
    ELSE IF MonsterKnown(stringMonsters[i]) /\ ~AddThrows(army)
    THEN ArmyFrom(stringMonsters, i + 1,
                  ArmyAdd(army, PlainMonster(stringMonsters[i])), created)
    ELSE [kind |-> "throw", army |-> army, heroes |-> created]

\* A loop that starts at the second string.
makeArmyFromSecond(stringMonsters) == ArmyFrom(stringMonsters, 2, EmptyArmy, <<>>)

\* makeArmyFromStrings(stringMonsters)
makeArmyFromStrings(stringMonsters) == ArmyFrom(stringMonsters, 1, EmptyArmy, <<>>)

NoInstance == [target |-> EmptyArmy, maxCombatants |-> 0, targetSize |-> 0]
Thrown(created) == [kind |-> "throw", instance |-> NoInstance, heroes |-> created]
Crashed == [kind |-> "crash", instance |-> NoInstance, heroes |-> <<>>]

\* What quests[questNumber] can yield.  Inside the table it is the entry.
\* Outside the table operator[] is undefined: the read can fault, or yield
\* whatever lies there, taken here as any of a few vectors of strings.
WildVectors == {<<>>, << <<"a">> >>, << <<"x">> >>}
QuestRead(questNumber) ==
    IF questNumber >= 0 /\ questNumber < Len(quests)
    THEN {[fault |-> FALSE, list |-> quests[questNumber + 1]]}
    ELSE {[fault |-> TRUE, list |-> <<>>]}
         \cup {[fault |-> FALSE, list |-> v] : v \in WildVectors}

\* The text of the tier that line 209 hands to stoi.
TierText(instanceString, dashPosition) == Substr(instanceString, dashPosition + 1, 1)

\* The rest of the quest branch once quests[questNumber] was read.
QuestInstance(instanceString, dashPosition, read) ==
    IF read.fault THEN Crashed
    ELSE LET a == makeArmyFromStrings(read.list)
             tier == stoi(TierText(instanceString, dashPosition))
         IN  IF a.kind = "throw" \/ tier.kind = "throw" THEN Thrown(a.heroes)
             ELSE [kind |-> "ok",
                   instance |-> [target |-> a.army,
                                 maxCombatants |-> ARMY_MAX_SIZE - (tier.val - 1),
                                 targetSize |-> a.army.monsterAmount],
                   heroes |-> a.heroes]

\* makeInstanceFromString(instanceString): the set of its possible outcomes,
\* each the Instance returned ("ok"), an exception ("throw") or a fault
\* ("crash"), with the heroes handed to addLeveledHero on the way.
makeInstanceFromString(instanceString) ==
    LET dashPosition == Find(instanceString, QUEST_NUMBER_SEPARTOR, 0)
        diff == dashPosition - Len(QUEST_PREFIX)
    IN  IF StartsWith(instanceString, QUEST_PREFIX)
        THEN LET questNumber ==
                     stoi(Substr(instanceString, Len(QUEST_PREFIX),
                                 IF diff < 0 THEN HugeCount ELSE diff))
             IN  IF questNumber.kind = "throw" THEN {Thrown(<<>>)}
                 ELSE {QuestInstance(instanceString, dashPosition, read) :
                           read \in QuestRead(questNumber.val)}
        ELSE LET a == makeArmyFromStrings(split(instanceString, ELEMENT_SEPARATOR))
             IN  IF a.kind = "throw" THEN {Thrown(a.heroes)}
                 ELSE {[kind |-> "ok",
                        instance |-> [target |-> a.army,
                                      maxCombatants |-> ARMY_MAX_SIZE,
                                      targetSize |-> a.army.monsterAmount],
                        heroes |-> a.heroes]}

\* ------------------------------------------------------------- the state
VARIABLES
    script,          \* the lines of the macro file on disk
    finalNewline,    \* whether the file ends with a line terminator
    fileFound,       \* whether macroFile.open can open it
    opened,          \* initMacroFile was called
    macroPos,        \* lines of macroFile read so far
    macroEof,        \* eofbit of macroFile
    useMacroFile,    \* IOManager::useMacroFile
    showQueries,     \* IOManager::showQueries
    pc,              \* position of the thread
    caller,          \* who called getResistantInput
    queryType,       \* parameter of getResistantInput
    inputString,     \* local of getResistantInput
    firstToken,      \* local of getResistantInput
    result,          \* the value getResistantInput returned
    instances,       \* local of takeInstanceInput
    heroRegistry,    \* the leveled heroes created by addLeveledHero
    printed,         \* what the last loop iteration wrote to cout
    source,          \* history: where the last iteration's line came from
    readFailed,      \* history: a read of macroFile has failed
    failedInCall,    \* history: a read of macroFile failed in this call
    fates,           \* history: what became of each line read from macroFile
    instanceString,  \* SpecParse: the argument of makeInstanceFromString
    outcome,         \* SpecParse: its outcome
    heroes,          \* local of takeHerolevelInput
    cancelCounter,   \* local of takeHerolevelInput
    prevAnswer,      \* history: the answer before the last, blank or not
    entered,         \* history: the hero specs that parsed, in entry order
    armyTokens,      \* SpecArmy: the argument of makeArmyFromStrings
    armyOutcome,     \* SpecArmy: its outcome
    replayArmy,      \* SpecReplay: the Army handed to the replay encoder
    replayOut,       \* SpecReplay: the entries it emits
    numMonster,      \* SpecNumber: the Monster handed to getReplayMonsterNumber
    numOut,          \* SpecNumber: the number it emits
    rawLine,         \* SpecLine: a line as read
    lineOut          \* SpecLine: what getResistantInput makes of it

ioVars == <<opened, macroPos, macroEof, useMacroFile, showQueries, pc, caller,
            queryType, inputString, firstToken, result, instances, printed,
            source, readFailed, failedInCall, fates>>
fileVars == <<script, finalNewline, fileFound>>
heroVars == <<heroes, cancelCounter, prevAnswer, entered>>
pureVars == <<armyTokens, armyOutcome, replayArmy, replayOut, numMonster, numOut,
              rawLine, lineOut>>
\* The variables the query automaton leaves alone.
parseVars == <<instanceString, outcome, addWhenFull, heroVars, pureVars>>
vars == <<fileVars, ioVars, heroRegistry, parseVars>>

QueryTypes == {"question", "integer", "raw", "rawFirst"}

\* The lines a macro file or the user supplies to the queries of Spec.
QueryLines == {
    <<"h", "e", "l", "p">>,
    <<"Y", "/", "/", "c">>,
    <<"n", " ", "x">>,
    <<"1", "2">>,
    <<"1", "a">>,
    <<>> }

\* The lines a macro file or the user supplies to takeInstanceInput.
LineupLines == {
    <<"h", "e", "l", "p">>,
    <<>>,
    <<"a">>,
    <<"a", " ", "h", ":", "1">>,
    <<"h", ":", "1", " ", "z">>,
    <<"q", "2", "-", "1">> }

Scripts(lines) == UNION {[1..n -> lines] : n \in 0..MaxScript}

NoOutcome == [kind |-> "none", instance |-> NoInstance, heroes |-> <<>>]

\* IOManager::IOManager().
InitIO ==
    /\ opened = FALSE
    /\ macroPos = 0
    /\ macroEof = FALSE
    /\ useMacroFile = FALSE
    /\ showQueries = TRUE
    /\ pc = "idle"
    /\ caller = "none"
    /\ queryType = "raw"
    /\ inputString = <<>>
    /\ firstToken = <<>>
    /\ result = <<>>
    /\ instances = <<>>
    /\ printed = {}
    /\ source = "none"
    /\ readFailed = FALSE
    /\ failedInCall = FALSE
    /\ fates = <<>>

\* takeHerolevelInput not yet called.
InitHeroVars ==
    /\ heroes = <<>>
    /\ cancelCounter = 0
    /\ prevAnswer = "none"
    /\ entered = <<>>

\* The functions of the other specifications not yet called.
NoArmy == [kind |-> "none", army |-> EmptyArmy, heroes |-> <<>>]
NoReplay == [kind |-> "none", setup |-> <<>>, heroes |-> <<>>]
NoNumber == [kind |-> "none", number |-> 0]
NoLine == [kind |-> "none", inputString |-> <<>>, firstToken |-> <<>>,
           fate |-> "none", raw |-> <<>>, rawFirst |-> <<>>]
InitArmyVars == armyTokens = <<>> /\ armyOutcome = NoArmy
InitReplayVars == replayArmy = EmptyArmy /\ replayOut = NoReplay
InitNumVars == numMonster = PlainMonster(<<>>) /\ numOut = NoNumber
InitLineVars == rawLine = <<>> /\ lineOut = NoLine

\* The macro file as it lies on disk: absent, or a file of lines.
InitFile(lines) ==
    /\ script \in Scripts(lines)
    /\ finalNewline \in (IF script = <<>> THEN {TRUE} ELSE BOOLEAN)
    /\ fileFound \in (IF script = <<>> THEN BOOLEAN ELSE {TRUE})

Init ==
    /\ InitFile(QueryLines)
    /\ InitIO
    /\ heroRegistry = {}
    /\ instanceString = <<>>
    /\ outcome = NoOutcome
    /\ addWhenFull = "throw"
    /\ InitHeroVars /\ InitArmyVars /\ InitReplayVars /\ InitNumVars /\ InitLineVars

\* ------------------------------------------------------ the query automaton
\* initMacroFile(macroFileName, showInput)
InitMacroFile(showInput) ==
    /\ pc = "idle"
    /\ ~opened
    /\ opened' = TRUE
    /\ useMacroFile' = fileFound
    /\ showQueries' = (fileFound /\ showInput)
    /\ UNCHANGED <<fileVars, macroPos, macroEof, pc, caller, queryType, inputString,
                   firstToken, result, instances, printed, source, readFailed,
                   failedInCall, fates, heroRegistry, parseVars>>

\* A call of getResistantInput(query, help, queryType) by a client.
CallGetResistantInput(qt) ==
    /\ pc = "idle"
    /\ pc' = "loop"
    /\ caller' = "client"
    /\ queryType' = qt
    /\ inputString' = <<>>
    /\ firstToken' = <<>>
    /\ failedInCall' = FALSE
    /\ UNCHANGED <<fileVars, opened, macroPos, macroEof, useMacroFile, showQueries,
                   result, instances, printed, source, readFailed, fates,
                   heroRegistry, parseVars>>

\* Whether getline(macroFile, inputString) extracts a line.
GetlineOk(lines, pos, eof) == ~eof /\ pos < Len(lines)

\* The flag is never cleared.
FlagAfterReadStuck(ok) == TRUE

\* useMacroFile after line 97.
FlagAfterRead(ok) == ok

\* The position is not advanced: the same line is read again.
PosAfterReadStuck(pos) == pos

\* The position of macroFile after a line was extracted.
PosAfterRead(pos) == pos + 1

\* inputString after getline(macroFile, inputString): the line when one is
\* extracted; unchanged when eofbit was set before the call (the sentry
\* fails); erased when the call itself reaches the end of the file.
AfterGetline(lines, pos, eof, old) ==
    IF GetlineOk(lines, pos, eof) THEN lines[pos + 1]
    ELSE IF eof THEN old ELSE <<>>

\* The user is never asked.
AsksUserNever(use) == FALSE

\* The condition of line 104.
AsksUser(use) == ~use

\* The condition of line 100.
PrintsQuery(use, show) == ~use \/ show

\* Line 109: the comment is cut off and the line lowercased.
Normalize(line) == split(toLower(line), COMMENT_DELIMITOR)[1]

\* Line 110.
FirstToken(s) == split(s, TOKEN_SEPARATOR)[1]

\* The help test is left out.
IsHelpNever(token) == FALSE

\* Line 114.
IsHelp(token) == token = HELP

\* Every answer is taken.
AcceptedAlways(qt, token) == TRUE

\* Lines 117-131: whether the answer is returned for the query type.
Accepted(qt, token) ==
    CASE qt = "question" -> token = POSITIVE_ANSWER \/ token = NEGATIVE_ANSWER
      [] qt = "integer" -> stoi(token).kind = "ok"
      [] qt = "raw" -> TRUE
      [] qt = "rawFirst" -> TRUE

\* Lines 118, 123, 127, 130: the value returned.
Answer(qt, line, token) == IF qt = "raw" THEN line ELSE token

\* What the iteration does with its line.
Fate(qt, token) ==
    IF IsHelp(token) THEN "help"
    ELSE IF Accepted(qt, token) THEN "returned" ELSE "invalid"

\* One iteration of the loop of getResistantInput (lines 94-133), the user
\* typing one of userLines when asked.
Iterate(userLines) ==
    /\ pc = "loop"
    /\ \E tried \in {useMacroFile} :
       \E ok \in {tried /\ GetlineOk(script, macroPos, macroEof)} :
       \E use \in {IF tried THEN FlagAfterRead(ok) ELSE useMacroFile} :
       \E asks \in {AsksUser(use)} :
       \E typed \in (IF asks THEN userLines
                     ELSE IF tried
                     THEN {AfterGetline(script, macroPos, macroEof, inputString)}
                     ELSE {inputString}) :
       \E line \in {Normalize(typed)} :
       \E token \in {FirstToken(line)} :
       \E fate \in {Fate(queryType, token)} :
          /\ useMacroFile' = use
          /\ macroPos' = IF ok THEN PosAfterRead(macroPos) ELSE macroPos
          /\ macroEof' = IF ok THEN (macroPos + 1 = Len(script) /\ ~finalNewline)
                         ELSE IF tried THEN TRUE ELSE macroEof
          /\ readFailed' = (readFailed \/ (tried /\ ~ok))
          /\ failedInCall' = (failedInCall \/ (tried /\ ~ok))
          /\ source' = IF asks THEN "user" ELSE IF ok THEN "script" ELSE "none"
          /\ fates' = IF ok
                      THEN Append(fates, [line |-> macroPos + 1,
                                          fate |-> IF asks THEN "dropped" ELSE fate])
                      ELSE fates
          /\ printed' = (IF PrintsQuery(use, showQueries) THEN {"query"} ELSE {})
                        \cup (IF use /\ showQueries THEN {"input"} ELSE {})
                        \cup (IF fate = "help" THEN {"help"} ELSE {})
          /\ inputString' = line
          /\ firstToken' = token
          /\ pc' = IF fate = "returned" THEN "ret" ELSE "loop"
          /\ result' = IF fate = "returned"
                       THEN Answer(queryType, line, token) ELSE result
    /\ UNCHANGED <<fileVars, opened, showQueries, caller, queryType, instances,
                   heroRegistry, parseVars>>

\* The client takes the answer; the locals of the call are gone.
ClientReturn ==
    /\ pc = "ret"
    /\ caller = "client"
    /\ pc' = "idle"
    /\ caller' = "none"
    /\ inputString' = <<>>
    /\ firstToken' = <<>>
    /\ result' = <<>>
    /\ printed' = {}
    /\ source' = "none"
    /\ failedInCall' = FALSE
    /\ UNCHANGED <<fileVars, opened, macroPos, macroEof, useMacroFile, showQueries,
                   queryType, instances, readFailed, fates, heroRegistry, parseVars>>

Next ==
    \/ \E showInput \in BOOLEAN : InitMacroFile(showInput)
    \/ \E qt \in QueryTypes : CallGetResistantInput(qt)
    \/ Iterate(QueryLines)
    \/ ClientReturn

Spec == Init /\ [][Next]_vars

\* --------------------------------------------------------- takeInstanceInput
Range(f) == {f[i] : i \in DOMAIN f}

\* The vector is not cleared between attempts.
ClearInstancesNot(insts) == insts

\* Line 190: instances.clear().
ClearInstances(insts) == <<>>

\* Lines 193-196 from index i (1-based): insts is the vector so far, created
\* the heroes created so far.  The set of possible outcomes: the vector
\* returned ("ok"), an exception caught at line 197 ("throw"), a fault.
RECURSIVE InstancesFrom(_, _, _, _)
InstancesFrom(instanceStrings, i, insts, created) ==
    IF i > Len(instanceStrings)
    THEN {[kind |-> "ok", instances |-> insts, heroes |-> created]}
    ELSE UNION {
        IF o.kind = "ok"
        THEN InstancesFrom(instanceStrings, i + 1, Append(insts, o.instance),
                           created \cup Range(o.heroes))
        ELSE {[kind |-> o.kind, instances |-> insts,
               heroes |-> created \cup Range(o.heroes)]} :
        o \in makeInstanceFromString(instanceStrings[i]) }

\* A call of takeInstanceInput(prompt), up to its first getResistantInput.
CallTakeInstanceInput ==
    /\ pc = "idle"
    /\ pc' = "loop"
    /\ caller' = "takeInstanceInput"
    /\ queryType' = "raw"
    /\ instances' = <<>>
    /\ inputString' = <<>>
    /\ firstToken' = <<>>
    /\ failedInCall' = FALSE
    /\ UNCHANGED <<fileVars, opened, macroPos, macroEof, useMacroFile, showQueries,
                   result, printed, source, readFailed, fates, heroRegistry, parseVars>>

\* Lines 189-197: the answer is split and every token parsed.  An exception
\* sends the loop to the next getResistantInput call.
ParseLine ==
    /\ pc = "ret"
    /\ caller = "takeInstanceInput"
    /\ \E o \in InstancesFrom(split(result, TOKEN_SEPARATOR), 1,
                              ClearInstances(instances), {}) :
          /\ instances' = o.instances
          /\ heroRegistry' = heroRegistry \cup o.heroes
          /\ pc' = CASE o.kind = "ok" -> "retInstances"
                     [] o.kind = "throw" -> "loop"
                     [] o.kind = "crash" -> "crashed"
    /\ inputString' = <<>>
    /\ firstToken' = <<>>
    /\ failedInCall' = FALSE
    /\ UNCHANGED <<fileVars, opened, macroPos, macroEof, useMacroFile, showQueries,
                   caller, queryType, result, printed, source, readFailed, fates,
                   parseVars>>

\* Line 196: the caller takes the vector.
TakeInstanceReturn ==
    /\ pc = "retInstances"
    /\ pc' = "idle"
    /\ caller' = "none"
    /\ instances' = <<>>
    /\ result' = <<>>
    /\ printed' = {}
    /\ source' = "none"
    /\ UNCHANGED <<fileVars, opened, macroPos, macroEof, useMacroFile, showQueries,
                   queryType, inputString, firstToken, readFailed, failedInCall,
                   fates, heroRegistry, parseVars>>

InitInstances ==
    /\ InitFile(LineupLines)
    /\ InitIO
    /\ heroRegistry = {}
    /\ instanceString = <<>>
    /\ outcome = NoOutcome
    /\ addWhenFull = "throw"
    /\ InitHeroVars /\ InitArmyVars /\ InitReplayVars /\ InitNumVars /\ InitLineVars

NextInstances ==
    \/ \E showInput \in BOOLEAN : InitMacroFile(showInput)
    \/ CallTakeInstanceInput
    \/ Iterate(LineupLines)
    \/ ParseLine
    \/ TakeInstanceReturn

SpecInstances == InitInstances /\ [][NextInstances]_vars

\* ------------------------------------------- makeInstanceFromString alone
ParseAlphabet == {"q", "0", "1", "2", "-", ",", "a", "h", ":"}
InstanceStrings == UNION {[1..n -> ParseAlphabet] : n \in 0..MaxLen}

InitParse ==
    /\ script = <<>>
    /\ finalNewline = TRUE
    /\ fileFound = FALSE
    /\ InitIO
    /\ heroRegistry = {}
    /\ instanceString \in InstanceStrings
    /\ outcome = NoOutcome
    /\ addWhenFull = "throw"
    /\ InitHeroVars /\ InitArmyVars /\ InitReplayVars /\ InitNumVars /\ InitLineVars

\* One call of makeInstanceFromString(instanceString).
ParseInstance ==
    /\ outcome.kind = "none"
    /\ \E o \in makeInstanceFromString(instanceString) :
          /\ outcome' = o
          /\ heroRegistry' = heroRegistry \cup Range(o.heroes)
    /\ UNCHANGED <<fileVars, ioVars, instanceString, addWhenFull, heroVars, pureVars>>

NextParse == ParseInstance

SpecParse == InitParse /\ [][NextParse]_vars

\* ---------------------------------------------------------------- claims
\* A text that is a base-10 integer as a whole: an optional sign, then one
\* or more digits, and nothing else.
IsWholeInteger(token) ==
    \E first \in {IF Len(token) > 0 /\ token[1] \in {"+", "-"} THEN 2 ELSE 1} :
        /\ first <= Len(token)
        /\ \A i \in first..Len(token) : IsDigit(token[i])

\* C1: an integer query returns only a text whose whole first token is a
\* base-10 integer; a partially numeric token such as "1a" is never returned.
C1_IntegerAnswerIsWholeInteger ==
    (pc = "ret" /\ queryType = "integer") => IsWholeInteger(result)

\* C2: a question query returns only the positive or the negative literal,
\* and it is the first token of the accepted line; while the call is still
\* looping, the last line's first token was neither literal.
C2_QuestionAnswerIsLiteral ==
    /\ (pc = "ret" /\ queryType = "question") =>
          /\ result \in {POSITIVE_ANSWER, NEGATIVE_ANSWER}
          /\ result = FirstToken(inputString)
    /\ (pc = "loop" /\ queryType = "question") =>
          firstToken \notin {POSITIVE_ANSWER, NEGATIVE_ANSWER}

C2_Witness ==
    /\ pc = "ret"
    /\ queryType = "question"
    /\ source = "script"
    /\ script[macroPos] = <<"Y", "/", "/", "c">>
    /\ result = POSITIVE_ANSWER

\* C3: whatever the query type, a line whose first token is "help" is never
\* the answer: the iteration that reads it prints the help text and leaves
\* the same call running, with no answer returned.
C3_HelpIsNeverAnswered ==
    /\ [](pc = "ret" => (firstToken # HELP /\ FirstToken(result) # HELP))
    /\ [][(pc = "loop" /\ firstToken' = HELP) =>
            /\ pc' = "loop"
            /\ "help" \in printed'
            /\ queryType' = queryType
            /\ caller' = caller
            /\ result' = result]_vars

C3_Witness ==
    /\ pc = "loop"
    /\ queryType = "rawFirst"
    /\ firstToken = HELP
    /\ "help" \in printed
    /\ source = "script"

\* C4: once a read of the macro file has failed, useMacroFile is false in
\* every later state, no further line is read from the file, and the flag
\* goes from true to false only when no read had failed before.
C4_ScriptModeEndsForGood ==
    /\ [](readFailed => ~useMacroFile)
    /\ [][readFailed => (~useMacroFile' /\ macroPos' = macroPos)]_vars
    /\ [][(useMacroFile /\ ~useMacroFile') => ~readFailed]_vars

C4_Witness ==
    /\ readFailed
    /\ Len(script) = 2
    /\ macroPos = 2
    /\ pc = "ret"
    /\ source = "user"
    /\ ~failedInCall

\* C5: the call that finds the macro file exhausted prints the query and
\* takes its line from the user; the failed read is never processed as a line.
C5_ExhaustedCallAsksUser ==
    failedInCall => (source = "user" /\ "query" \in printed)

C5_Witness ==
    /\ pc = "ret"
    /\ failedInCall
    /\ Len(script) = 2
    /\ macroPos = 2
    /\ fates[1].fate = "returned"
    /\ fates[2].fate = "returned"
    /\ ~showQueries

\* C6: the lines of the macro file are read in file order, each by one
\* iteration: the k-th read takes line k, and the line is either returned
\* by the query that read it or discarded as "help" or as invalid.
C6_ScriptLinesInOrder ==
    /\ Len(fates) = macroPos
    /\ macroPos <= Len(script)
    /\ \A k \in 1..Len(fates) :
          /\ fates[k].line = k
          /\ fates[k].fate \in {"returned", "help", "invalid"}
          /\ (fates[k].fate = "help") <=> (FirstToken(Normalize(script[k])) = HELP)
    /\ (pc = "ret" /\ source = "script") =>
          /\ fates[macroPos].fate = "returned"
          /\ inputString = Normalize(script[macroPos])
          /\ result = Answer(queryType, inputString, FirstToken(inputString))

C6_Witness ==
    /\ pc = "ret"
    /\ source = "script"
    /\ macroPos = 2
    /\ fates[1].fate = "invalid"
    /\ fates[2].fate = "returned"

\* C7: takeInstanceInput returns only a vector that holds one Instance per
\* token of the line just accepted, in token order, each the Instance that
\* token parses to; nothing of a rejected line is left in it.
C7_InstancesOfOneLine ==
    pc = "retInstances" =>
        \E tokens \in {split(result, TOKEN_SEPARATOR)} :
            /\ Len(instances) = Len(tokens)
            /\ \A i \in 1..Len(tokens) :
                  \E o \in makeInstanceFromString(tokens[i]) :
                      o.kind = "ok" /\ o.instance = instances[i]

C7_Witness ==
    /\ pc = "retInstances"
    /\ source = "script"
    /\ macroPos = 2
    /\ script[1] = <<"h", ":", "1", " ", "z">>
    /\ script[2] = <<"a", " ", "h", ":", "1">>
    /\ Len(instances) = 2
    /\ instances[2].target.monsters = <<LeveledHero(<<"h">>, 1)>>

\* Whether a token of a lineup names nothing: a plain name absent from the
\* monster database, or a hero token whose base name is not a base hero.
UnknownName(token) ==
    \E pos \in {Find(token, HEROLEVEL_SEPARATOR, 0)} :
        IF pos = NPOS THEN token \notin monsterMap
        ELSE SubSeq(token, 1, pos) \notin Range(baseHeroes)

\* A raw lineup: an instance string that is not taken as a quest reference.
IsRawLineup(s) == ~StartsWith(s, QUEST_PREFIX)

HasUnknownName(s) ==
    \E tokens \in {split(s, ELEMENT_SEPARATOR)} :
        \E i \in 1..Len(tokens) : UnknownName(tokens[i])

\* C8: a raw lineup with an unknown name at any position is a parse failure:
\* makeInstanceFromString returns no Instance for it.
C8_UnknownNameFails ==
    (outcome.kind # "none" /\ IsRawLineup(instanceString)
        /\ HasUnknownName(instanceString)) => outcome.kind = "throw"

C8_Witness ==
    /\ outcome.kind = "throw"
    /\ instanceString = <<"h", ":", "1", ",", "0">>
    /\ heroRegistry = {LeveledHero(<<"h">>, 1)}

\* A text of one or more digits, and its value.
IsNumber(s) == Len(s) > 0 /\ \A i \in 1..Len(s) : IsDigit(s[i])
RECURSIVE NumberValue(_)
NumberValue(s) ==
    IF Len(s) = 0 THEN 0
    ELSE 10 * NumberValue(SubSeq(s, 1, Len(s) - 1)) + DigitVal(s[Len(s)])

\* The quest number and the tier of a quest reference
\* QUEST_PREFIX number "-" tier, or none when s is no quest reference.
QuestRef(s) ==
    LET dash == Find(s, QUEST_NUMBER_SEPARTOR, 0)
        number == SubSeq(s, Len(QUEST_PREFIX) + 1, dash)
        tier == SubSeq(s, dash + 2, Len(s))
    IN  IF StartsWith(s, QUEST_PREFIX) /\ dash # NPOS /\ IsNumber(number) /\ IsNumber(tier)
        THEN [ref |-> TRUE, quest |-> NumberValue(number), tier |-> NumberValue(tier)]
        ELSE [ref |-> FALSE, quest |-> 0, tier |-> 0]

\* C9: a quest reference whose number is outside the quest table is a parse
\* failure (no Instance, no read outside the table).
C9_QuestOutOfRangeFails ==
    \E r \in {QuestRef(instanceString)} :
        (outcome.kind # "none" /\ r.ref /\ r.quest >= Len(quests)) =>
            outcome.kind = "throw"

\* C10: a quest reference with a valid number q and a tier t >= 1 of any
\* number of digits yields maxCombatants = ARMY_MAX_SIZE - (t - 1), the army
\* of quests[q] as target and its size as targetSize; a raw lineup that
\* parses yields maxCombatants = ARMY_MAX_SIZE.
C10_QuestTierSetsMaxCombatants ==
    \E r \in {QuestRef(instanceString)} :
        /\ (outcome.kind # "none" /\ r.ref /\ r.quest < Len(quests) /\ r.tier >= 1) =>
              /\ outcome.kind = "ok"
              /\ outcome.instance.maxCombatants = ARMY_MAX_SIZE - (r.tier - 1)
              /\ outcome.instance.target = makeArmyFromStrings(quests[r.quest + 1]).army
              /\ outcome.instance.targetSize = Len(quests[r.quest + 1])
        /\ (outcome.kind = "ok" /\ IsRawLineup(instanceString)) =>
              outcome.instance.maxCombatants = ARMY_MAX_SIZE

\* -------------------------------------------------------- takeHerolevelInput
\* The most heroes a call collects here.
MaxHeroes == 2

\* The literal that ends the loop of takeHerolevelInput.
DONE == <<"d", "o", "n", "e">>

\* The lines a macro file or the user supplies to takeHerolevelInput.
HeroLines == {
    <<>>,
    <<"d", "o", "n", "e">>,
    <<"h", ":", "1">>,
    <<"h", ":", "2">>,
    <<"z", ":", "1">>,
    <<"h", "e", "l", "p">> }

\* A counter that a non-empty answer does not reset.
CounterAfterNoReset(counter, input) == IF input = <<>> THEN counter + 1 ELSE counter

\* Lines 168-171: cancelCounter after an answer.
CounterAfter(counter, input) == IF input = <<>> THEN counter + 1 ELSE 0

\* Line 176: whether the loop goes on.
LoopGoesOn(input, counter) == input # DONE /\ counter < 2

\* A call of takeHerolevelInput(), up to its first getResistantInput.
CallTakeHerolevelInput ==
    /\ pc = "idle"
    /\ pc' = "loop"
    /\ caller' = "takeHerolevelInput"
    /\ queryType' = "rawFirst"
    /\ heroes' = <<>>
    /\ cancelCounter' = 0
    /\ prevAnswer' = "none"
    /\ entered' = <<>>
    /\ inputString' = <<>>
    /\ firstToken' = <<>>
    /\ failedInCall' = FALSE
    /\ UNCHANGED <<fileVars, opened, macroPos, macroEof, useMacroFile, showQueries,
                   result, instances, printed, source, readFailed, fates,
                   heroRegistry, instanceString, outcome, addWhenFull, pureVars>>

\* Lines 168-176: one answer is counted or parsed, and the loop condition
\* evaluated.  An exception of parseHeroString is caught and dropped.
HeroStep ==
    /\ pc = "ret"
    /\ caller = "takeHerolevelInput"
    /\ \E input \in {result} :
       \E heroData \in {IF input = <<>>
                        THEN [kind |-> "throw", base |-> <<>>, level |-> 0]
                        ELSE parseHeroString(input)} :
       \E counter \in {CounterAfter(cancelCounter, input)} :
          /\ heroData.kind = "ok" => Len(heroes) < MaxHeroes
          /\ cancelCounter' = counter
          /\ heroes' = IF heroData.kind = "ok"
                       THEN Append(heroes, LeveledHero(heroData.base, heroData.level))
                       ELSE heroes
          /\ heroRegistry' = IF heroData.kind = "ok"
                             THEN heroRegistry \cup
                                  {LeveledHero(heroData.base, heroData.level)}
                             ELSE heroRegistry
          /\ entered' = IF heroData.kind = "ok" THEN Append(entered, input) ELSE entered
          /\ prevAnswer' = IF input = <<>> THEN "blank" ELSE "other"
          /\ pc' = IF LoopGoesOn(input, counter) THEN "loop" ELSE "retHeroes"
    /\ inputString' = <<>>
    /\ firstToken' = <<>>
    /\ failedInCall' = FALSE
    /\ UNCHANGED <<fileVars, opened, macroPos, macroEof, useMacroFile, showQueries,
                   caller, queryType, result, instances, printed, source, readFailed,
                   fates, instanceString, outcome, addWhenFull, pureVars>>

\* Line 178: the caller takes the vector.
TakeHerolevelReturn ==
    /\ pc = "retHeroes"
    /\ pc' = "idle"
    /\ caller' = "none"
    /\ heroes' = <<>>
    /\ cancelCounter' = 0
    /\ prevAnswer' = "none"
    /\ entered' = <<>>
    /\ result' = <<>>
    /\ printed' = {}
    /\ source' = "none"
    /\ UNCHANGED <<fileVars, opened, macroPos, macroEof, useMacroFile, showQueries,
                   queryType, inputString, firstToken, instances, readFailed,
                   failedInCall, fates, heroRegistry, instanceString, outcome,
                   addWhenFull, pureVars>>

InitHeroes ==
    /\ InitFile(HeroLines)
    /\ InitIO
    /\ heroRegistry = {}
    /\ instanceString = <<>>
    /\ outcome = NoOutcome
    /\ addWhenFull = "throw"
    /\ InitHeroVars /\ InitArmyVars /\ InitReplayVars /\ InitNumVars /\ InitLineVars

NextHeroes ==
    \/ \E showInput \in BOOLEAN : InitMacroFile(showInput)
    \/ CallTakeHerolevelInput
    \/ Iterate(HeroLines)
    \/ HeroStep
    \/ TakeHerolevelReturn

SpecHeroes == InitHeroes /\ [][NextHeroes]_vars

\* C11: takeHerolevelInput stops exactly at the answer "done" or at the second
\* of two consecutive blank answers (blank, non-blank, blank does not stop),
\* and reads no line after the answer that stops it.
C11_StopsAtDoneOrSecondBlank ==
    [][ /\ (pc = "ret" /\ caller = "takeHerolevelInput")
           => ((pc' = "retHeroes")
               <=> (result = DONE \/ (result = <<>> /\ prevAnswer = "blank")))
        /\ (pc = "retHeroes")
           => (pc' = "idle" /\ macroPos' = macroPos /\ fates' = fates) ]_vars

\* A hero was entered, and the second of two blank answers in a row has
\* stopped the loop.
C11_Witness ==
    /\ pc = "retHeroes"
    /\ caller = "takeHerolevelInput"
    /\ result = <<>>
    /\ prevAnswer = "blank"
    /\ cancelCounter = 2
    /\ Len(heroes) = 1

\* The heroes of the answers, each at its first entry only.
RECURSIVE FirstEntries(_, _)
FirstEntries(answers, i) ==
    IF i = 0 THEN <<>>
    ELSE LET before == FirstEntries(answers, i - 1)
             d == parseHeroString(answers[i])
             h == LeveledHero(d.base, d.level)
         IN  IF \E k \in 1..Len(before) : before[k] = h THEN before
             ELSE Append(before, h)

\* C12: the vector takeHerolevelInput returns holds one entry per hero
\* successfully entered, in the order in which each was first entered.
C12_OneEntryPerHero ==
    pc = "retHeroes" => heroes = FirstEntries(entered, Len(entered))

\* ----------------------------------------------------------- replay encoder
\* The lines of the tournament grid, and the id of an empty slot.
TOURNAMENT_LINES == 5
REPLAY_EMPTY_SPOT == -1

\* The canonical monster list, by name, in its order.
monsterBaseList == << <<"a">>, <<"b">> >>

\* Conversion to int8_t: the low 8 bits, read as two's complement.
Int8(x) == ((x + 128) % 256) - 128

\* The last index (0-based) at which the list holds the name, NPOS if none:
\* a loop that assigns at every match and does not break ends with the last.
LastMatch(list, name) ==
    LET at == {i \in 0..(Len(list) - 1) : list[i + 1] = name}
    IN  IF at = {} THEN NPOS ELSE CHOOSE i \in at : \A k \in at : k <= i

\* Lines 291-295: the loop over the hero list; a match sets (int8_t)(-i - 2).
HeroNumber(heroList, monster, index) ==
    LET i == LastMatch(heroList, monster.baseName)
    IN  IF i = NPOS THEN index ELSE Int8(-i - 2)

\* Lines 297-301: the loop over the monster list; a match sets (int8_t) i.
MonsterNumber(monsterList, monster, index) ==
    LET i == LastMatch(monsterList, monster.name)
    IN  IF i = NPOS THEN index ELSE Int8(i)

\* getReplayMonsterNumber(monster) over the hero list and the monster list
\* given; the number is what to_string prints.
ReplayMonsterNumber(monster, heroList, monsterList) ==
    IF monster.hero
    THEN HeroNumber(heroList, monster, REPLAY_EMPTY_SPOT)
    ELSE MonsterNumber(monsterList, monster, REPLAY_EMPTY_SPOT)

\* getReplayMonsterNumber(monster)
getReplayMonsterNumber(monster) ==
    ReplayMonsterNumber(monster, baseHeroes, monsterBaseList)

\* The unit of slot i taken from the front of the army.
SlotUnitForward(setup, i) == setup.monsters[(i % ARMY_MAX_SIZE) + 1]

\* Line 274: the unit of slot i, setup.monsters[monsterAmount - (i % ARMY_MAX_SIZE) - 1].
SlotUnit(setup, i) ==
    setup.monsters[(setup.monsterAmount - (i % ARMY_MAX_SIZE) - 1) + 1]

\* Lines 272-281 from slot i: the entries written so far are in output.
RECURSIVE ReplaySetupFrom(_, _, _)
ReplaySetupFrom(setup, i, output) ==
    IF i >= ARMY_MAX_SIZE * TOURNAMENT_LINES THEN output
    ELSE ReplaySetupFrom(setup, i + 1,
            Append(output,
                   IF (i % ARMY_MAX_SIZE) < setup.monsterAmount
                   THEN getReplayMonsterNumber(SlotUnit(setup, i))
                   ELSE REPLAY_EMPTY_SPOT))

\* getReplaySetup(setup): the entries between the brackets, in order.
getReplaySetup(setup) == ReplaySetupFrom(setup, 0, <<>>)

\* The inner loop without its break: the last match wins.
RECURSIVE HeroLevelLast(_, _, _, _)
HeroLevelLast(setup, baseName, j, level) ==
    IF j >= setup.monsterAmount THEN level
    ELSE HeroLevelLast(setup, baseName, j + 1,
                       IF setup.monsters[j + 1].hero
                          /\ setup.monsters[j + 1].baseName = baseName
                       THEN setup.monsters[j + 1].level ELSE level)

\* Lines 314-320 from unit j: the first match sets the level and breaks.
RECURSIVE HeroLevelFrom(_, _, _, _)
HeroLevelFrom(setup, baseName, j, level) ==
    IF j >= setup.monsterAmount THEN level
    ELSE IF setup.monsters[j + 1].hero /\ setup.monsters[j + 1].baseName = baseName
    THEN setup.monsters[j + 1].level
    ELSE HeroLevelFrom(setup, baseName, j + 1, level)

\* getReplayHeroes(setup): the entries between the brackets, in order.
getReplayHeroes(setup) ==
    [i \in 1..Len(baseHeroes) |-> HeroLevelFrom(setup, baseHeroes[i], 0, 0)]

\* The units the armies of SpecReplay are made of.
ReplayUnits == {
    PlainMonster(<<"a">>),
    PlainMonster(<<"b">>),
    LeveledHero(<<"h">>, 1),
    LeveledHero(<<"h">>, 2),
    LeveledHero(<<"g">>, 3) }

\* The armies of at most ARMY_MAX_SIZE units.
ReplayArmies ==
    {[monsters |-> ms, monsterAmount |-> Len(ms)] :
        ms \in UNION {[1..n -> ReplayUnits] : n \in 0..ARMY_MAX_SIZE}}

InitReplay ==
    /\ script = <<>> /\ finalNewline = FALSE /\ fileFound = FALSE
    /\ InitIO
    /\ heroRegistry = {}
    /\ instanceString = <<>>
    /\ outcome = NoOutcome
    /\ addWhenFull = "throw"
    /\ InitHeroVars /\ InitArmyVars /\ InitNumVars /\ InitLineVars
    /\ replayArmy \in ReplayArmies
    /\ replayOut = NoReplay

\* makeBattleReplay for one of its armies: the setup and the hero levels.
EncodeReplay ==
    /\ replayOut = NoReplay
    /\ replayOut' = [kind |-> "done",
                     setup |-> getReplaySetup(replayArmy),
                     heroes |-> getReplayHeroes(replayArmy)]
    /\ UNCHANGED <<fileVars, ioVars, heroRegistry, instanceString, outcome,
                   addWhenFull, heroVars, armyTokens, armyOutcome, replayArmy,
                   numMonster, numOut, rawLine, lineOut>>

NextReplay == EncodeReplay

SpecReplay == InitReplay /\ [][NextReplay]_vars

\* C13: getReplaySetup emits ARMY_MAX_SIZE * TOURNAMENT_LINES entries; entry i
\* is the id of the unit at position n - (i mod ARMY_MAX_SIZE) - 1 when
\* (i mod ARMY_MAX_SIZE) < n and the empty-slot id otherwise, so every line
\* repeats the same reversed, padded copy of the army.
C13_SetupIsReversedPaddedLines ==
    replayOut.kind = "done" =>
        LET n == replayArmy.monsterAmount
            out == replayOut.setup
        IN  /\ Len(out) = ARMY_MAX_SIZE * TOURNAMENT_LINES
            /\ \A i \in 0..(Len(out) - 1) :
                  /\ out[i + 1] =
                        IF (i % ARMY_MAX_SIZE) < n
                        THEN getReplayMonsterNumber(
                                replayArmy.monsters[n - (i % ARMY_MAX_SIZE)])
                        ELSE REPLAY_EMPTY_SPOT
                  /\ out[i + 1] = out[(i % ARMY_MAX_SIZE) + 1]

\* An army smaller than ARMY_MAX_SIZE, with a monster behind a hero, encoded.
C13_Witness ==
    /\ replayOut.kind = "done"
    /\ replayArmy.monsterAmount = 3
    /\ replayArmy.monsters[1].hero
    /\ replayArmy.monsters[3] = PlainMonster(<<"b">>)
    /\ replayOut.setup[1] = 1
    /\ replayOut.setup[4] = REPLAY_EMPTY_SPOT

\* The first unit of the army that is a hero of the base name, 0 if none.
FirstHeroAt(army, baseName) ==
    LET at == {j \in 1..army.monsterAmount :
                  army.monsters[j].hero /\ army.monsters[j].baseName = baseName}
    IN  IF at = {} THEN 0 ELSE CHOOSE j \in at : \A k \in at : j <= k

\* C15: getReplayHeroes emits one entry per element of baseHeroes, in order;
\* entry k is the level of the first unit of the army that is a hero with the
\* base name of baseHeroes[k], and 0 when the army holds none.
C15_HeroLevelsFirstMatch ==
    replayOut.kind = "done" =>
        /\ Len(replayOut.heroes) = Len(baseHeroes)
        /\ \A k \in 1..Len(baseHeroes) :
              replayOut.heroes[k] =
                 IF FirstHeroAt(replayArmy, baseHeroes[k]) = 0 THEN 0
                 ELSE replayArmy.monsters[FirstHeroAt(replayArmy, baseHeroes[k])].level

\* An army with hero h at two levels and without hero g, encoded.
C15_Witness ==
    /\ replayOut.kind = "done"
    /\ replayArmy.monsterAmount = 3
    /\ replayArmy.monsters[2] = LeveledHero(<<"h">>, 2)
    /\ replayArmy.monsters[3] = LeveledHero(<<"h">>, 1)
    /\ replayOut.heroes = <<2, 0>>

\* --------------------------------------------------- getReplayMonsterNumber
\* The longest hero list and monster list here.
MaxIndex == 130

\* A list of n names, no two alike.
ManyNames(n) == [i \in 1..n |-> <<"u", i>>]

\* The Monsters of lists of MaxIndex names: every ordinary monster, and every
\* hero at two levels.
NumberMonsters ==
    {PlainMonster(<<"u", i>>) : i \in 1..MaxIndex}
    \cup {LeveledHero(<<"u", i>>, l) : i \in 1..MaxIndex, l \in {1, 99}}

InitNumber ==
    /\ script = <<>> /\ finalNewline = FALSE /\ fileFound = FALSE
    /\ InitIO
    /\ heroRegistry = {}
    /\ instanceString = <<>>
    /\ outcome = NoOutcome
    /\ addWhenFull = "throw"
    /\ InitHeroVars /\ InitArmyVars /\ InitReplayVars /\ InitLineVars
    /\ numMonster \in NumberMonsters
    /\ numOut = NoNumber

\* getReplayMonsterNumber(numMonster) with lists of MaxIndex names.
EncodeNumber ==
    /\ numOut = NoNumber
    /\ numOut' = [kind |-> "done",
                  number |-> ReplayMonsterNumber(numMonster, ManyNames(MaxIndex),
                                                 ManyNames(MaxIndex))]
    /\ UNCHANGED <<fileVars, ioVars, heroRegistry, instanceString, outcome,
                   addWhenFull, heroVars, armyTokens, armyOutcome, replayArmy,
                   replayOut, numMonster, rawLine, lineOut>>

NextNumber == EncodeNumber

SpecNumber == InitNumber /\ [][NextNumber]_vars

\* The 0-based position of the Monster's name in its list.
PositionOf(monster) == monster.name[2] - 1

\* C14: an ordinary unit at position p of the monster list is emitted as p, a
\* hero at index h of the hero list as -(h + 2) whatever its level, for every
\* size of the lists; a hero's number is neither the empty-slot id nor an
\* ordinary monster's number.
C14_NumberIsPositionOrHeroCode ==
    numOut.kind = "done" =>
        IF numMonster.hero
        THEN /\ numOut.number = -(PositionOf(numMonster) + 2)
             /\ numOut.number # REPLAY_EMPTY_SPOT
             /\ numOut.number < 0
        ELSE /\ numOut.number = PositionOf(numMonster)
             /\ numOut.number >= 0

\* ------------------------------------------------------ makeArmyFromStrings
\* The most strings handed to makeArmyFromStrings here.
MaxTokens == 7

\* The strings of a lineup: a monster, a hero with its level, an unknown name.
ArmyTokens == {<<"a">>, <<"h", ":", "1">>, <<"z">>}

InitArmy ==
    /\ script = <<>> /\ finalNewline = FALSE /\ fileFound = FALSE
    /\ InitIO
    /\ heroRegistry = {}
    /\ instanceString = <<>>
    /\ outcome = NoOutcome
    /\ addWhenFull \in {"throw", "drop"}
    /\ InitHeroVars /\ InitReplayVars /\ InitNumVars /\ InitLineVars
    /\ armyTokens \in UNION {[1..n -> ArmyTokens] : n \in 0..MaxTokens}
    /\ armyOutcome = NoArmy

\* makeArmyFromStrings(armyTokens): the Army returned, or an exception.
MakeArmy ==
    /\ armyOutcome = NoArmy
    /\ armyOutcome' = makeArmyFromStrings(armyTokens)
    /\ heroRegistry' = heroRegistry \cup Range(armyOutcome'.heroes)
    /\ UNCHANGED <<fileVars, ioVars, instanceString, outcome, addWhenFull, heroVars,
                   armyTokens, replayArmy, replayOut, numMonster, numOut, rawLine,
                   lineOut>>

NextArmy == MakeArmy

SpecArmy == InitArmy /\ [][NextArmy]_vars

\* The unit a string of a lineup stands for.
ResolvedUnit(token) ==
    IF \E k \in 1..Len(token) : token[k] = HEROLEVEL_SEPARATOR[1]
    THEN LeveledHero(parseHeroString(token).base, parseHeroString(token).level)
    ELSE PlainMonster(token)

C17_RejectedLineLeavesNoState ==
    [][(pc = "ret" /\ caller = "takeInstanceInput" /\ pc' = "loop")
        => heroRegistry' = heroRegistry]_vars

\* The text after the first hero-level separator of a token.
LevelText(token) ==
    SubSeq(token, Find(token, HEROLEVEL_SEPARATOR, 0) + 2, Len(token))

\* C18: a hero token whose text after the separator is not a non-negative
\* integer is a parse failure, so every level handed to addLeveledHero is a
\* non-negative integer equal to the whole text after the separator.
C18_HeroLevelIsWholeNumber ==
    (outcome.kind # "none" /\ IsRawLineup(instanceString)) =>
        \E tokens \in {split(instanceString, ELEMENT_SEPARATOR)} :
           /\ (\E i \in 1..Len(tokens) :
                  /\ Find(tokens[i], HEROLEVEL_SEPARATOR, 0) # NPOS
                  /\ ~IsNumber(LevelText(tokens[i])))
              => outcome.kind = "throw"
           /\ \A k \in 1..Len(outcome.heroes) :
                 /\ outcome.heroes[k].level >= 0
                 /\ \E i \in 1..Len(tokens) :
                       /\ Find(tokens[i], HEROLEVEL_SEPARATOR, 0) # NPOS
                       /\ IsNumber(LevelText(tokens[i]))
                       /\ NumberValue(LevelText(tokens[i])) = outcome.heroes[k].level

\* ------------------------------------------- the line of getResistantInput
\* The characters of the lines of SpecLine.
LineAlphabet == {" ", "/", "A", "b"}

\* Every line of at most MaxLen characters.
Lines == UNION {[1..n -> LineAlphabet] : n \in 0..MaxLen}

InitLine ==
    /\ script = <<>> /\ finalNewline = FALSE /\ fileFound = FALSE
    /\ InitIO
    /\ heroRegistry = {}
    /\ instanceString = <<>>
    /\ outcome = NoOutcome
    /\ addWhenFull = "throw"
    /\ InitHeroVars /\ InitArmyVars /\ InitReplayVars /\ InitNumVars
    /\ rawLine \in Lines
    /\ lineOut = NoLine

\* Lines 109-131 for the line read: inputString, firstToken, and what a raw
\* and a rawFirst query do with them.
ProcessLine ==
    /\ lineOut = NoLine
    /\ \E line \in {Normalize(rawLine)} :
       \E token \in {FirstToken(line)} :
          lineOut' = [kind |-> "done", inputString |-> line, firstToken |-> token,
                      fate |-> Fate("raw", token),
                      raw |-> Answer("raw", line, token),
                      rawFirst |-> Answer("rawFirst", line, token)]
    /\ UNCHANGED <<fileVars, ioVars, heroRegistry, instanceString, outcome,
                   addWhenFull, heroVars, armyTokens, armyOutcome, replayArmy,
                   replayOut, numMonster, numOut, rawLine>>

NextLine == ProcessLine

SpecLine == InitLine /\ [][NextLine]_vars

\* The line up to its first comment delimiter.
CutAtComment(s) ==
    LET at == {i \in 1..(Len(s) - 1) : s[i] = "/" /\ s[i + 1] = "/"}
    IN  IF at = {} THEN s
        ELSE SubSeq(s, 1, (CHOOSE i \in at : \A k \in at : i <= k) - 1)

\* The first maximal run of characters that are not the token separator.
FirstRun(s) ==
    LET at == {i \in 1..Len(s) : s[i] # " "}
        first == CHOOSE i \in at : \A k \in at : i <= k
        ends == {j \in first..Len(s) : j = Len(s) \/ s[j + 1] = " "}
    IN  IF at = {} THEN <<>>
        ELSE SubSeq(s, first, CHOOSE j \in ends : \A k \in ends : j <= k)

\* C19: firstToken is the first run of non-separator characters of the
\* normalized line, also when the line starts with separators; inputString is
\* the lowercased line cut at the first comment delimiter; a rawFirst query
\* returns firstToken and a raw query inputString unless firstToken is "help".
C19_FirstTokenIsFirstRun ==
    lineOut.kind = "done" =>
        /\ lineOut.inputString = CutAtComment(toLower(rawLine))
        /\ lineOut.firstToken = FirstRun(lineOut.inputString)
        /\ lineOut.firstToken # HELP =>
              /\ lineOut.fate = "returned"
              /\ lineOut.raw = lineOut.inputString
              /\ lineOut.rawFirst = lineOut.firstToken

\* ------------------------------------------------------------- termination
\* The lines of a script or of the user: help, an answer to a question, an
\* integer, and a line no question or integer query takes.
LiveLines == {
    <<"h", "e", "l", "p">>,
    <<"Y", "/", "/", "c">>,
    <<"1", "2">>,
    <<>> }

InitLive ==
    /\ InitFile(LiveLines)
    /\ InitIO
    /\ heroRegistry = {}
    /\ instanceString = <<>>
    /\ outcome = NoOutcome
    /\ addWhenFull = "throw"
    /\ InitHeroVars /\ InitArmyVars /\ InitReplayVars /\ InitNumVars /\ InitLineVars

NextLive ==
    \/ \E showInput \in BOOLEAN : InitMacroFile(showInput)
    \/ \E qt \in QueryTypes : CallGetResistantInput(qt)
    \/ Iterate(LiveLines)
    \/ ClientReturn

\* Every read completes, and a user who is asked again and again types a
\* line that is valid for the query type.
SpecLive ==
    /\ InitLive
    /\ [][NextLive]_vars
    /\ WF_vars(Iterate(LiveLines))
    /\ WF_vars(Iterate(LiveLines) /\ pc' = "ret")

\* C20: every call of getResistantInput returns, whatever the script holds,
\* and with the answer returned the call is over.
C20_EveryCallReturns ==
    /\ (pc = "loop") ~> (pc = "ret")
    /\ [][pc = "ret" => (pc' = "idle" /\ caller' = "none")]_vars

\* A call that read an invalid line from the script, saw the script end, and
\* returned the user's answer.
C20_Witness ==
    /\ pc = "ret"
    /\ caller = "client"
    /\ queryType = "integer"
    /\ failedInCall
    /\ source = "user"
    /\ \E i \in 1..Len(fates) : fates[i].fate = "invalid"
    /\ \E i \in 1..Len(fates) : fates[i].fate = "help"
====
